---- MODULE Spec2Model ----
(***************************************************************************)
(* Model of the NaturalCapitalFhe contract (batch ledger, asset store,     *)
(* aggregation and the asynchronous decryption request/callback protocol). *)
(* Every external or public function of the contract is one action; an     *)
(* action that reverts leaves the contract state unchanged and records the *)
(* error in lastCall.                                                      *)
(*                                                                         *)
(* The web front end (asset list kept in a key/value store, submission,    *)
(* verification and rejection of assets) is modelled beside it, each       *)
(* browser client a process whose handlers yield at their awaits.          *)
(*                                                                         *)
(* Ciphertext handles (euint32) are modelled as sequences: <<>> is the     *)
(* uninitialized handle (bytes32 zero), <<k>> an input ciphertext, and     *)
(* FHE.add concatenates, so the handle of a sum is a deterministic,        *)
(* injective function of the handles of its operands, as in the fhEVM      *)
(* library where the result handle is a hash of the operation and its      *)
(* operands.                                                               *)
(***************************************************************************)
EXTENDS Integers, Sequences, FiniteSets, TLC

\* ---- bounds of the model ----
\* batches opened, assets submitted (over all batches), decryption requests
\* issued, and steps of the clock
MaxBatch == 2
MaxAssets == 2
MaxReq == 1
MaxTicks == 1

\* ---- program constants ----
DefaultCooldown == 60
LimbMod == 65536

\* addresses: the zero address, the deployer and one more account
ZeroAddress == "0x0"
Deployer == "deployer"
Other == "other"
Addresses == {ZeroAddress, Deployer, Other}
Senders == {Deployer, Other}
BatchIds == 0..(MaxBatch + 1)
RequestIds == 0..MaxReq
CooldownInputs == {0, DefaultCooldown, 2 * DefaultCooldown}
ThisAddress == "NaturalCapitalFhe"
NoTime == <<>>

VARIABLES owner, isProvider, paused, cooldownSeconds,
          lastSubmissionTime, lastDecryptionRequestTime,
          currentBatchId, isBatchOpen, assetCountInBatch, batchAssets,
          decryptionContexts,
          counterRequest, requestedHandles,
          now, events, emitted, lastCall,
          countAtRequest, closedBatches, submittedAt, requestedAt

\* the web front end: the shared key/value store (the asset_keys entry and
\* the asset_<id> entries) and, for each client, its position in submitAsset,
\* the locals keys and assetId of that call, and the React state assets and
\* selectedAsset
VARIABLES asset_keys, asset_data, pc, keys, assetId, assets, selectedAsset

appVars == <<asset_keys, asset_data, pc, keys, assetId, assets, selectedAsset>>

\* the browsers with a connected wallet, named by the wallet's address
Clients == Senders

\* no asset selected: selectedAsset is null
NoAsset == [id |-> 0, owner |-> ZeroAddress, status |-> "none"]

contractVars == <<owner, isProvider, paused, cooldownSeconds,
                  lastSubmissionTime, lastDecryptionRequestTime,
                  currentBatchId, isBatchOpen, assetCountInBatch, batchAssets,
                  decryptionContexts>>
oracleVars == <<counterRequest, requestedHandles>>
stateVars == <<contractVars, oracleVars, events>>
historyVars == <<countAtRequest, closedBatches, submittedAt, requestedAt>>
vars == <<stateVars, now, emitted, lastCall, historyVars, appVars>>

\* now is block.timestamp, events the log of decryption events, emitted the
\* events of the latest call (none when it reverts), lastCall the latest call
\* with its outcome. History variables: countAtRequest, the
\* asset count of the requested batch when each request id was issued, and
\* closedBatches, the batch ids on which closeBatch has succeeded, and
\* submittedAt and requestedAt, the block time of each address's latest
\* successful submitAsset and requestBatchSummaryDecryption (a one-element
\* sequence, NoTime before the first)

\* ---- the FHE library as the contract uses it ----

\* an euint32 passed in by a caller: 0 is the uninitialized handle
Handle(k) == IF k = 0 THEN <<>> ELSE <<k>>

\* FHE.isInitialized: the handle is not bytes32(0)
isInitialized(h) == h # <<>>

\* FHE.add replaces an uninitialized operand by the trivial encryption of 0
\* (leaf 0) and returns the handle of the sum
FHEadd(a, b) ==
    (IF isInitialized(a) THEN a ELSE <<0>>) \o (IF isInitialized(b) THEN b ELSE <<0>>)

\* a uint32 is kept as two 16-bit limbs, value = hi * 2^16 + lo
Word(hi, lo) == [hi |-> hi, lo |-> lo]

\* euint32 addition: the sum modulo 2^32
AddWrap(x, y) ==
    LET lo == x.lo + y.lo
        hi == x.hi + y.hi + (lo \div LimbMod)
    IN Word(hi % LimbMod, lo % LimbMod)

\* plaintext behind an input ciphertext handle
PlainOf(k) ==
    IF k = 0 THEN Word(0, 0)
    ELSE IF k = 1 THEN Word(0, 10)
    ELSE IF k = 2 THEN Word(0, 3)
    ELSE IF k = 3 THEN Word(0, 20)
    ELSE IF k = 4 THEN Word(0, 6)
    ELSE IF k = 5 THEN Word(LimbMod - 1, LimbMod - 3)
    ELSE Word(0, k)

\* what the decryption oracle returns for a handle
RECURSIVE Decrypt(_)
Decrypt(h) == IF h = <<>> THEN Word(0, 0) ELSE AddWrap(PlainOf(Head(h)), Decrypt(Tail(h)))

\* ---- storage reads (a mapping entry never written reads as zero) ----
ZeroAsset == [encryptedArea |-> <<>>, encryptedHealthIndex |-> <<>>,
              encryptedCarbonSequestration |-> <<>>,
              encryptedBiodiversityIndex |-> <<>>, ownerAddress |-> ZeroAddress]

AssetAt(batchId, i) ==
    IF i \in DOMAIN batchAssets[batchId] THEN batchAssets[batchId][i] ELSE ZeroAsset

ZeroHash == <<>>
ZeroContext == [batchId |-> 0, stateHash |-> ZeroHash, processed |-> FALSE]

Ctx(requestId) ==
    IF requestId \in DOMAIN decryptionContexts
    THEN decryptionContexts[requestId] ELSE ZeroContext

\* the initialized flag of the aggregation loop, as the callback tests it
aggregateMissing_never(agg) == FALSE

aggregateMissing(agg) == ~agg.initialized

\* currentBatchId++ in openNewBatch
nextBatchId_same(batchId) == batchId

nextBatchId(batchId) == batchId + 1

\* the index submitAsset writes at
assetIndexOf_first(batchId) == 0

assetIndexOf(batchId) == assetCountInBatch[batchId]

\* ---- modifiers ----
\* an owner check that providers pass too
onlyOwner_orProvider(sender) == sender = owner \/ isProvider[sender]

onlyOwner(sender) == sender = owner
onlyProvider(sender) == isProvider[sender]
whenNotPaused_always == TRUE

\* a pause guard that also waits for every pending request to be answered
whenNotPaused_noPending == ~paused /\ \A r \in DOMAIN decryptionContexts : decryptionContexts[r].processed

whenNotPaused == ~paused

\* ---- uint256 ----
\* a uint256 is kept as an integer offset: n >= 0 stands for n and n < 0 for
\* 2^256 + n, so that the values near both ends of the range are at hand
MaxUint256 == -1

\* a < b on uint256
uintLess(a, b) == IF (a < 0) = (b < 0) THEN a < b ELSE b < 0

\* a + b leaves the uint256 range; checked arithmetic then reverts with
\* Panic(0x11)
addOverflows(a, b) == (a < 0 /\ b < 0) \/ ((a < 0 \/ b < 0) /\ a + b >= 0)

\* the sum in the cooldown guard overflows
cooldownPanics(sender, lastTime) == addOverflows(lastTime[sender], cooldownSeconds)

\* a guard that lets every call through
respectCooldown_never(sender, lastTime) == TRUE

respectCooldown(sender, lastTime) == ~uintLess(now, lastTime[sender] + cooldownSeconds)

\* ---- aggregation loop shared by request and callback ----
RECURSIVE AggLoop(_, _, _)
AggLoop(batchId, i, acc) ==
    IF ~(i < assetCountInBatch[batchId]) THEN acc
    ELSE LET asset == AssetAt(batchId, i) IN
         AggLoop(batchId, i + 1,
            IF ~isInitialized(acc.area)
            THEN [area |-> asset.encryptedArea,
                  carbon |-> asset.encryptedCarbonSequestration,
                  initialized |-> TRUE]
            ELSE [area |-> FHEadd(acc.area, asset.encryptedArea),
                  carbon |-> FHEadd(acc.carbon, asset.encryptedCarbonSequestration),
                  initialized |-> acc.initialized])

\* an aggregation that also folds the first asset's health index into the area
Aggregate_withHealth(batchId) ==
    LET agg == AggLoop(batchId, 0, [area |-> <<>>, carbon |-> <<>>, initialized |-> FALSE])
    IN [agg EXCEPT !.area = FHEadd(@, AssetAt(batchId, 0).encryptedHealthIndex)]

Aggregate(batchId) ==
    AggLoop(batchId, 0, [area |-> <<>>, carbon |-> <<>>, initialized |-> FALSE])

\* cts[0], cts[1] = FHE.toBytes32 of the two totals
CtsOf(agg) == <<agg.area, agg.carbon>>

\* a hash that leaves the ciphertext handles out
hashCiphertexts_ignoresCts(cts) == <<"keccak", <<>>, ThisAddress>>

\* a hash that mixes in the current batch id
hashCiphertexts_withCurrentBatch(cts) == <<"keccak", cts, currentBatchId>>

\* keccak256(abi.encode(cts, address(this))): injective in its arguments
hashCiphertexts(cts) == <<"keccak", cts, ThisAddress>>


\* ---- the decryption oracle as the contract uses it ----

\* FHE.requestDecryption first asks the ACL to allow every handle for
\* decryption; the ACL rejects a handle the contract has no access to, and
\* nobody ever has access to the uninitialized handle
allowForDecryption(cts) == \A k \in 1..Len(cts) : isInitialized(cts[k])

\* the cleartext payload the oracle signs for a list of handles
AuthenticCleartexts(cts) == [k \in 1..Len(cts) |-> Decrypt(cts[k])]

\* FHE.checkSignatures: the proof must be the oracle's signature over the
\* handles saved for this request id and the delivered cleartexts; the
\* oracle signs nothing but the true decryption
checkSignatures(requestId, cleartexts, proof) ==
    /\ requestId \in DOMAIN requestedHandles
    /\ proof = "kms"
    /\ cleartexts = AuthenticCleartexts(requestedHandles[requestId])

\* the oracle's signed answer to a request
OracleAnswer(r) == AuthenticCleartexts(requestedHandles[r])

\* abi.decode(cleartexts, (uint32, uint32))
abiDecode(cleartexts) == [totalArea |-> cleartexts[1], totalCarbon |-> cleartexts[2]]

\* ---- outcome of each call: "ok" or the error it reverts with ----
\* a transfer open to every caller
transferOwnershipErr_anyone(sender) == "ok"

transferOwnershipErr(sender) == IF ~onlyOwner(sender) THEN "NotOwner" ELSE "ok"

addProviderErr(sender) == IF ~onlyOwner(sender) THEN "NotOwner" ELSE "ok"

removeProviderErr(sender) == IF ~onlyOwner(sender) THEN "NotOwner" ELSE "ok"

setPausedErr(sender) == IF ~onlyOwner(sender) THEN "NotOwner" ELSE "ok"

\* setCooldownSeconds without the require on the new value
setCooldownSecondsErr_noZeroCheck(sender, newCooldownSeconds) ==
    IF ~onlyOwner(sender) THEN "NotOwner" ELSE "ok"

setCooldownSecondsErr(sender, newCooldownSeconds) ==
    IF ~onlyOwner(sender) THEN "NotOwner"
    ELSE IF ~uintLess(0, newCooldownSeconds) THEN "Cooldown must be positive"
    ELSE "ok"

openNewBatchErr(sender) ==
    IF ~onlyOwner(sender) THEN "NotOwner"
    ELSE IF ~whenNotPaused THEN "PausedError"
    ELSE "ok"

\* closeBatch without the open-flag check
closeBatchErr_noOpenCheck(sender, batchId) ==
    IF ~onlyOwner(sender) THEN "NotOwner" ELSE "ok"

closeBatchErr(sender, batchId) ==
    IF ~onlyOwner(sender) THEN "NotOwner"
    ELSE IF ~isBatchOpen[batchId] THEN "BatchClosedOrInvalid"
    ELSE "ok"

\* submitAsset with the open check ahead of the pause and cooldown modifiers
submitAssetErr_openCheckFirst(sender) ==
    IF ~onlyProvider(sender) THEN "NotProvider"
    ELSE IF ~isBatchOpen[currentBatchId] THEN "BatchClosedOrInvalid"
    ELSE IF ~whenNotPaused THEN "PausedError"
    ELSE IF cooldownPanics(sender, lastSubmissionTime) THEN "Panic(0x11)"
    ELSE IF ~respectCooldown(sender, lastSubmissionTime) THEN "CooldownActive"
    ELSE "ok"

submitAssetErr_noOpenCheck(sender) ==
    IF ~onlyProvider(sender) THEN "NotProvider"
    ELSE IF ~whenNotPaused THEN "PausedError"
    ELSE IF cooldownPanics(sender, lastSubmissionTime) THEN "Panic(0x11)"
    ELSE IF ~respectCooldown(sender, lastSubmissionTime) THEN "CooldownActive"
    ELSE "ok"

submitAssetErr(sender) ==
    IF ~onlyProvider(sender) THEN "NotProvider"
    ELSE IF ~whenNotPaused THEN "PausedError"
    ELSE IF cooldownPanics(sender, lastSubmissionTime) THEN "Panic(0x11)"
    ELSE IF ~respectCooldown(sender, lastSubmissionTime) THEN "CooldownActive"
    ELSE IF ~isBatchOpen[currentBatchId] THEN "BatchClosedOrInvalid"
    ELSE "ok"

requestBatchSummaryDecryptionErr(sender, batchId) ==
    IF ~whenNotPaused THEN "PausedError"
    ELSE IF cooldownPanics(sender, lastDecryptionRequestTime) THEN "Panic(0x11)"
    ELSE IF ~respectCooldown(sender, lastDecryptionRequestTime) THEN "CooldownActive"
    ELSE IF assetCountInBatch[batchId] = 0 THEN "InvalidBatchId"
    ELSE IF ~Aggregate(batchId).initialized THEN "InvalidBatchId"
    ELSE IF ~allowForDecryption(CtsOf(Aggregate(batchId))) THEN "SenderNotAllowed"
    ELSE "ok"

\* the replay guard reading ctx.processed
replayGuard_never(requestId) == FALSE

\* a replay guard shared by all request ids
replayGuard_anyProcessed(requestId) == \E r \in DOMAIN decryptionContexts : decryptionContexts[r].processed

replayGuard(requestId) == Ctx(requestId).processed

\* the callback with the proof verified before the two state checks
myCallbackErr_proofFirst(requestId, cleartexts, proof) ==
    IF ~checkSignatures(requestId, cleartexts, proof) THEN "InvalidSignatures"
    ELSE IF replayGuard(requestId) THEN "ReplayAttempt"
    ELSE LET ctx == Ctx(requestId)
             agg == Aggregate(ctx.batchId)
         IN IF ~agg.initialized THEN "InvalidBatchId"
            ELSE IF hashCiphertexts(CtsOf(agg)) # ctx.stateHash THEN "StateMismatch"
            ELSE "ok"

\* the callback without the proof verification
myCallbackErr_noProofCheck(requestId, cleartexts, proof) ==
    IF replayGuard(requestId) THEN "ReplayAttempt"
    ELSE LET ctx == Ctx(requestId)
             agg == Aggregate(ctx.batchId)
         IN IF aggregateMissing(agg) THEN "InvalidBatchId"
            ELSE IF hashCiphertexts(CtsOf(agg)) # ctx.stateHash THEN "StateMismatch"
            ELSE "ok"

\* the callback behind the pause guard
myCallbackErr_whenNotPaused(requestId, cleartexts, proof) ==
    IF ~whenNotPaused THEN "PausedError"
    ELSE IF replayGuard(requestId) THEN "ReplayAttempt"
    ELSE LET ctx == Ctx(requestId)
             agg == Aggregate(ctx.batchId)
         IN IF aggregateMissing(agg) THEN "InvalidBatchId"
            ELSE IF hashCiphertexts(CtsOf(agg)) # ctx.stateHash THEN "StateMismatch"
            ELSE IF ~checkSignatures(requestId, cleartexts, proof) THEN "InvalidSignatures"
            ELSE "ok"

myCallbackErr(requestId, cleartexts, proof) ==
    IF replayGuard(requestId) THEN "ReplayAttempt"
    ELSE LET ctx == Ctx(requestId)
             agg == Aggregate(ctx.batchId)
         IN IF aggregateMissing(agg) THEN "InvalidBatchId"
            ELSE IF hashCiphertexts(CtsOf(agg)) # ctx.stateHash THEN "StateMismatch"
            ELSE IF ~checkSignatures(requestId, cleartexts, proof) THEN "InvalidSignatures"
            ELSE "ok"

\* ---- storage writes and events of submitAsset, request and callback ----

\* a timer write that stamps 0 instead of block.timestamp
stampTime_zero(lastTime, sender) == [lastTime EXCEPT ![sender] = 0]

\* a timer write that stamps every address
stampTime_everyone(lastTime, sender) == [a \in DOMAIN lastTime |-> now]

\* _lastTime[msg.sender] = block.timestamp
stampTime(lastTime, sender) == [lastTime EXCEPT ![sender] = now]

\* a context stored as already processed
newContext_processed(batchId, stateHash) == [batchId |-> batchId, stateHash |-> stateHash, processed |-> TRUE]

\* DecryptionContext({batchId, stateHash, processed: false})
newContext(batchId, stateHash) == [batchId |-> batchId, stateHash |-> stateHash, processed |-> FALSE]

\* a request event that leaves the batch id out
DecryptionRequestedEvent_noBatch(requestId, batchId) == [type |-> "DecryptionRequested", requestId |-> requestId, batchId |-> 0, totalArea |-> 0, totalCarbonSequestration |-> 0]

\* emit DecryptionRequested(requestId, batchId)
DecryptionRequestedEvent(requestId, batchId) == [type |-> "DecryptionRequested", requestId |-> requestId, batchId |-> batchId, totalArea |-> 0, totalCarbonSequestration |-> 0]

\* emit DecryptionCompleted(requestId, batchId, totalArea, totalCarbonSequestration)
DecryptionCompletedEvent(requestId, batchId, decoded) == [type |-> "DecryptionCompleted", requestId |-> requestId, batchId |-> batchId, totalArea |-> decoded.totalArea, totalCarbonSequestration |-> decoded.totalCarbon]

\* number of assets stored so far, over all batches
RECURSIVE SumCounts(_)
SumCounts(b) == IF b < 0 THEN 0 ELSE assetCountInBatch[b] + SumCounts(b - 1)
TotalAssets == SumCounts(MaxBatch + 1)

\* an event with its arguments
Emit(name, args) == [name |-> name, args |-> args]

\* the log of a call: its events when it succeeds, nothing when it reverts
LogOf(err, log) == IF err = "ok" THEN log ELSE <<>>

\* a ProviderAdded event only when the role changes
providerAddedLog_onlyOnChange(provider) == IF isProvider[provider] THEN <<>> ELSE <<Emit("ProviderAdded", <<provider>>)>>

\* emit ProviderAdded(provider)
providerAddedLog(provider) == <<Emit("ProviderAdded", <<provider>>)>>

\* emit ProviderRemoved(provider)
providerRemovedLog(provider) == <<Emit("ProviderRemoved", <<provider>>)>>

Call(op, sender, arg, err) == [op |-> op, sender |-> sender, arg |-> arg, err |-> err]

\* ---- state after construction ----
Init ==
    /\ owner = Deployer
    /\ isProvider = [a \in Addresses |-> FALSE]
    /\ paused = FALSE
    /\ cooldownSeconds = DefaultCooldown
    /\ lastSubmissionTime = [a \in Addresses |-> 0]
    /\ lastDecryptionRequestTime = [a \in Addresses |-> 0]
    /\ currentBatchId = 1
    /\ isBatchOpen = [b \in BatchIds |-> b = 1]
    /\ assetCountInBatch = [b \in BatchIds |-> 0]
    /\ batchAssets = [b \in BatchIds |-> <<>>]
    /\ decryptionContexts = <<>>
    /\ counterRequest = 0
    /\ requestedHandles = <<>>
    /\ now = DefaultCooldown
    /\ countAtRequest = <<>>
    /\ closedBatches = {}
    /\ submittedAt = [a \in Addresses |-> NoTime]
    /\ requestedAt = [a \in Addresses |-> NoTime]
    /\ events = <<>>
    /\ emitted = <<Emit("OwnershipTransferred", <<ZeroAddress, Deployer>>),
                   Emit("BatchOpened", <<1>>)>>
    /\ lastCall = Call("constructor", Deployer, 0, "ok")
    /\ asset_keys = <<>>
    /\ asset_data = <<>>
    /\ pc = [c \in Clients |-> "idle"]
    /\ keys = [c \in Clients |-> <<>>]
    /\ assetId = [c \in Clients |-> 0]
    /\ assets = [c \in Clients |-> <<>>]
    /\ selectedAsset = [c \in Clients |-> NoAsset]

\* ---- actions ----
transferOwnership(sender, newOwner) ==
    LET err == transferOwnershipErr(sender) IN
    /\ emitted' = LogOf(err, <<Emit("OwnershipTransferred", <<owner, newOwner>>)>>)
    /\ lastCall' = Call("transferOwnership", sender, newOwner, err)
    /\ IF err = "ok"
       THEN /\ owner' = newOwner
            /\ UNCHANGED <<isProvider, paused, cooldownSeconds, lastSubmissionTime,
                           lastDecryptionRequestTime, currentBatchId, isBatchOpen,
                           assetCountInBatch, batchAssets, decryptionContexts>>
       ELSE UNCHANGED contractVars
    /\ UNCHANGED <<oracleVars, events, now, historyVars>>
    /\ UNCHANGED appVars

addProvider(sender, provider) ==
    LET err == addProviderErr(sender) IN
    /\ emitted' = LogOf(err, providerAddedLog(provider))
    /\ lastCall' = Call("addProvider", sender, provider, err)
    /\ IF err = "ok"
       THEN /\ isProvider' = [isProvider EXCEPT ![provider] = TRUE]
            /\ UNCHANGED <<owner, paused, cooldownSeconds, lastSubmissionTime,
                           lastDecryptionRequestTime, currentBatchId, isBatchOpen,
                           assetCountInBatch, batchAssets, decryptionContexts>>
       ELSE UNCHANGED contractVars
    /\ UNCHANGED <<oracleVars, events, now, historyVars>>
    /\ UNCHANGED appVars

removeProvider(sender, provider) ==
    LET err == removeProviderErr(sender) IN
    /\ emitted' = LogOf(err, providerRemovedLog(provider))
    /\ lastCall' = Call("removeProvider", sender, provider, err)
    /\ IF err = "ok"
       THEN /\ isProvider' = [isProvider EXCEPT ![provider] = FALSE]
            /\ UNCHANGED <<owner, paused, cooldownSeconds, lastSubmissionTime,
                           lastDecryptionRequestTime, currentBatchId, isBatchOpen,
                           assetCountInBatch, batchAssets, decryptionContexts>>
       ELSE UNCHANGED contractVars
    /\ UNCHANGED <<oracleVars, events, now, historyVars>>
    /\ UNCHANGED appVars

setPaused(sender, _paused) ==
    LET err == setPausedErr(sender) IN
    /\ emitted' = LogOf(err, <<Emit(IF _paused THEN "Paused" ELSE "Unpaused", <<sender>>)>>)
    /\ lastCall' = Call("setPaused", sender, _paused, err)
    /\ IF err = "ok"
       THEN /\ paused' = (IF _paused THEN TRUE ELSE FALSE)
            /\ UNCHANGED <<owner, isProvider, cooldownSeconds, lastSubmissionTime,
                           lastDecryptionRequestTime, currentBatchId, isBatchOpen,
                           assetCountInBatch, batchAssets, decryptionContexts>>
       ELSE UNCHANGED contractVars
    /\ UNCHANGED <<oracleVars, events, now, historyVars>>
    /\ UNCHANGED appVars

setCooldownSeconds(sender, newCooldownSeconds) ==
    LET err == setCooldownSecondsErr(sender, newCooldownSeconds) IN
    /\ emitted' = LogOf(err, <<Emit("CooldownSecondsChanged", <<cooldownSeconds, newCooldownSeconds>>)>>)
    /\ lastCall' = Call("setCooldownSeconds", sender, newCooldownSeconds, err)
    /\ IF err = "ok"
       THEN /\ cooldownSeconds' = newCooldownSeconds
            /\ UNCHANGED <<owner, isProvider, paused, lastSubmissionTime,
                           lastDecryptionRequestTime, currentBatchId, isBatchOpen,
                           assetCountInBatch, batchAssets, decryptionContexts>>
       ELSE UNCHANGED contractVars
    /\ UNCHANGED <<oracleVars, events, now, historyVars>>
    /\ UNCHANGED appVars

openNewBatch(sender) ==
    LET err == openNewBatchErr(sender) IN
    /\ err = "ok" => currentBatchId < MaxBatch
    /\ emitted' = LogOf(err, <<Emit("BatchOpened", <<nextBatchId(currentBatchId)>>)>>)
    /\ lastCall' = Call("openNewBatch", sender, 0, err)
    /\ IF err = "ok"
       THEN /\ currentBatchId' = nextBatchId(currentBatchId)
            /\ isBatchOpen' = [isBatchOpen EXCEPT ![nextBatchId(currentBatchId)] = TRUE]
            /\ UNCHANGED <<owner, isProvider, paused, cooldownSeconds,
                           lastSubmissionTime, lastDecryptionRequestTime,
                           assetCountInBatch, batchAssets, decryptionContexts>>
       ELSE UNCHANGED contractVars
    /\ UNCHANGED <<oracleVars, events, now, historyVars>>
    /\ UNCHANGED appVars

closeBatch(sender, batchId) ==
    LET err == closeBatchErr(sender, batchId) IN
    /\ emitted' = LogOf(err, <<Emit("BatchClosed", <<batchId>>)>>)
    /\ lastCall' = Call("closeBatch", sender, batchId, err)
    /\ IF err = "ok"
       THEN /\ isBatchOpen' = [isBatchOpen EXCEPT ![batchId] = FALSE]
            /\ closedBatches' = closedBatches \cup {batchId}
            /\ UNCHANGED <<owner, isProvider, paused, cooldownSeconds,
                           lastSubmissionTime, lastDecryptionRequestTime,
                           currentBatchId, assetCountInBatch, batchAssets,
                           decryptionContexts>>
       ELSE UNCHANGED <<contractVars, closedBatches>>
    /\ UNCHANGED <<oracleVars, events, now, countAtRequest, submittedAt, requestedAt>>
    /\ UNCHANGED appVars

submitAsset(sender, encryptedArea, encryptedHealthIndex, encryptedCarbonSequestration, encryptedBiodiversityIndex) ==
    LET err == submitAssetErr(sender)
        assetIndex == assetIndexOf(currentBatchId)
    IN
    /\ err = "ok" => TotalAssets < MaxAssets
    /\ emitted' = LogOf(err, <<Emit("AssetSubmitted", <<sender, currentBatchId, assetIndex>>)>>)
    /\ lastCall' = Call("submitAsset", sender,
                        <<encryptedArea, encryptedHealthIndex,
                          encryptedCarbonSequestration, encryptedBiodiversityIndex>>, err)
    /\ IF err = "ok"
       THEN /\ batchAssets' = [batchAssets EXCEPT ![currentBatchId] =
                    (assetIndex :>
                       [encryptedArea |-> encryptedArea,
                        encryptedHealthIndex |-> encryptedHealthIndex,
                        encryptedCarbonSequestration |-> encryptedCarbonSequestration,
                        encryptedBiodiversityIndex |-> encryptedBiodiversityIndex,
                        ownerAddress |-> sender]) @@ @]
            /\ assetCountInBatch' = [assetCountInBatch EXCEPT ![currentBatchId] = @ + 1]
            /\ lastSubmissionTime' = stampTime(lastSubmissionTime, sender)
            /\ submittedAt' = [submittedAt EXCEPT ![sender] = <<now>>]
            /\ UNCHANGED <<owner, isProvider, paused, cooldownSeconds,
                           lastDecryptionRequestTime, currentBatchId, isBatchOpen,
                           decryptionContexts>>
       ELSE UNCHANGED <<contractVars, submittedAt>>
    /\ UNCHANGED <<oracleVars, events, now, countAtRequest, closedBatches, requestedAt>>
    /\ UNCHANGED appVars

requestBatchSummaryDecryption(sender, batchId) ==
    LET err == requestBatchSummaryDecryptionErr(sender, batchId)
        cts == CtsOf(Aggregate(batchId))
        stateHash == hashCiphertexts(cts)
        requestId == counterRequest
    IN
    /\ err = "ok" => counterRequest \in RequestIds
    /\ emitted' = LogOf(err, <<DecryptionRequestedEvent(requestId, batchId)>>)
    /\ lastCall' = Call("requestBatchSummaryDecryption", sender, batchId, err)
    /\ IF err = "ok"
       THEN /\ requestedHandles' = (requestId :> cts) @@ requestedHandles
            /\ counterRequest' = counterRequest + 1
            /\ decryptionContexts' =
                    (requestId :> newContext(batchId, stateHash)) @@ decryptionContexts
            /\ lastDecryptionRequestTime' = stampTime(lastDecryptionRequestTime, sender)
            /\ events' = Append(events, DecryptionRequestedEvent(requestId, batchId))
            /\ countAtRequest' = (requestId :> assetCountInBatch[batchId]) @@ countAtRequest
            /\ requestedAt' = [requestedAt EXCEPT ![sender] = <<now>>]
            /\ UNCHANGED <<owner, isProvider, paused, cooldownSeconds,
                           lastSubmissionTime, currentBatchId, isBatchOpen,
                           assetCountInBatch, batchAssets>>
       ELSE UNCHANGED <<contractVars, oracleVars, events, countAtRequest, requestedAt>>
    /\ UNCHANGED <<now, closedBatches, submittedAt>>
    /\ UNCHANGED appVars

myCallback(sender, requestId, cleartexts, proof) ==
    LET err == myCallbackErr(requestId, cleartexts, proof)
        ctx == Ctx(requestId)
        batchId == ctx.batchId
        decoded == abiDecode(cleartexts)
    IN
    /\ emitted' = LogOf(err, <<DecryptionCompletedEvent(requestId, batchId, decoded)>>)
    /\ lastCall' = Call("myCallback", sender,
                        [requestId |-> requestId,
                         authentic |-> checkSignatures(requestId, cleartexts, proof)], err)
    /\ IF err = "ok"
       THEN /\ decryptionContexts' =
                    [decryptionContexts EXCEPT ![requestId].processed = TRUE]
            /\ events' = Append(events, DecryptionCompletedEvent(requestId, batchId, decoded))
            /\ UNCHANGED <<owner, isProvider, paused, cooldownSeconds,
                           lastSubmissionTime, lastDecryptionRequestTime,
                           currentBatchId, isBatchOpen, assetCountInBatch, batchAssets>>
       ELSE UNCHANGED <<contractVars, events>>
    /\ UNCHANGED <<oracleVars, now, historyVars>>
    /\ UNCHANGED appVars

\* block.timestamp moves forward between transactions
Tick ==
    /\ now + DefaultCooldown <= (MaxTicks + 1) * DefaultCooldown
    /\ now' = now + DefaultCooldown
    /\ emitted' = <<>>
    /\ lastCall' = Call("tick", ZeroAddress, 0, "ok")
    /\ UNCHANGED <<stateVars, historyVars>>
    /\ UNCHANGED appVars

\* the payloads a callback may carry for a request id: the oracle's answer
\* for that request, or something else
ForgedCleartexts == <<Word(0, 1), Word(0, 1)>>
CleartextInputs(requestId) ==
    {ForgedCleartexts} \cup
    (IF requestId \in DOMAIN requestedHandles
     THEN {AuthenticCleartexts(requestedHandles[requestId])} ELSE {})
ProofInputs == {"kms", "forged"}

\* the ciphertexts a provider may submit: <<area, carbon sequestration>>
\* handles; handle 0 is the uninitialized one
AssetInputs == {<<1, 2>>, <<0, 4>>}
HealthInput == Handle(6)
BiodiversityInput == Handle(7)

\* a specification that issues at most MaxReq requests takes a successful
\* request step only while fewer have been issued
requestBudget(sender, batchId) ==
    requestBatchSummaryDecryptionErr(sender, batchId) = "ok" => counterRequest < MaxReq

\* the request/callback protocol over the batch ledger, with the deployer as
\* owner and the other account as provider
NextProtocol ==
    \/ addProvider(Deployer, Other)
    \/ openNewBatch(Deployer)
    \/ closeBatch(Deployer, currentBatchId)
    \/ \E in \in AssetInputs :
            submitAsset(Other, Handle(in[1]), HealthInput,
                        Handle(in[2]), BiodiversityInput)
    \/ \E b \in 1..currentBatchId :
            /\ requestBudget(Deployer, b)
            /\ requestBatchSummaryDecryption(Deployer, b)
    \/ \E r \in RequestIds, p \in ProofInputs :
            \E ct \in CleartextInputs(r) : myCallback(Other, r, ct, p)
    \/ Tick

SpecProtocol == Init /\ [][NextProtocol]_vars

\* the request/callback protocol over batches that are never closed: the
\* callback reads the batch's records and the request's context, neither of
\* which closeBatch writes
NextCallback ==
    \/ addProvider(Deployer, Other)
    \/ openNewBatch(Deployer)
    \/ \E in \in AssetInputs :
            submitAsset(Other, Handle(in[1]), HealthInput,
                        Handle(in[2]), BiodiversityInput)
    \/ \E b \in 1..currentBatchId :
            /\ requestBudget(Deployer, b)
            /\ requestBatchSummaryDecryption(Deployer, b)
    \/ \E r \in RequestIds, p \in ProofInputs :
            \E ct \in CleartextInputs(r) : myCallback(Other, r, ct, p)
    \/ Tick

SpecCallback == Init /\ [][NextCallback]_vars


\* the batch ledger and the asset store under every caller: role changes,
\* ownership transfer, batch opening and closing, submissions
NextLedger ==
    \/ \E s \in Senders, a \in Senders : transferOwnership(s, a)
    \/ \E s \in Senders, a \in Senders : addProvider(s, a)
    \/ \E s \in Senders, a \in Senders : removeProvider(s, a)
    \/ \E s \in Senders : openNewBatch(s)
    \/ \E s \in Senders, b \in BatchIds : closeBatch(s, b)
    \/ \E s \in Senders :
            submitAsset(s, Handle(1), HealthInput,
                        Handle(2), BiodiversityInput)
    \/ Tick

SpecLedger == Init /\ [][NextLedger]_vars

\* the batch ledger with roles that are only ever given: ownership passes to
\* the other account, either account may be made a provider, and both
\* accounts open and close batches and submit
NextBatches ==
    \/ \E s \in Senders : transferOwnership(s, Other)
    \/ \E s \in Senders, a \in Senders : addProvider(s, a)
    \/ \E s \in Senders : openNewBatch(s)
    \/ \E s \in Senders, b \in BatchIds : closeBatch(s, b)
    \/ \E s \in Senders :
            submitAsset(s, Handle(1), HealthInput,
                        Handle(2), BiodiversityInput)
    \/ Tick

SpecBatches == Init /\ [][NextBatches]_vars

\* the pause switch over the whole protocol, with the deployer as owner and
\* the other account as provider
NextPause ==
    \/ addProvider(Deployer, Other)
    \/ \E p \in BOOLEAN : setPaused(Deployer, p)
    \/ \E c \in {0, DefaultCooldown} : setCooldownSeconds(Deployer, c)
    \/ openNewBatch(Deployer)
    \/ closeBatch(Deployer, currentBatchId)
    \/ submitAsset(Other, Handle(1), HealthInput,
                   Handle(2), BiodiversityInput)
    \/ \E b \in 1..currentBatchId :
            /\ requestBudget(Deployer, b)
            /\ requestBatchSummaryDecryption(Deployer, b)
    \/ \E r \in RequestIds :
            \E ct \in CleartextInputs(r) : myCallback(Other, r, ct, "kms")
    \/ Tick

SpecPause == Init /\ [][NextPause]_vars

\* the pause switch over the functions a caller starts work with: the same
\* steps without the oracle's callback
NextSwitch ==
    \/ addProvider(Deployer, Other)
    \/ \E p \in BOOLEAN : setPaused(Deployer, p)
    \/ \E c \in {0, DefaultCooldown} : setCooldownSeconds(Deployer, c)
    \/ openNewBatch(Deployer)
    \/ closeBatch(Deployer, currentBatchId)
    \/ submitAsset(Other, Handle(1), HealthInput,
                   Handle(2), BiodiversityInput)
    \/ \E b \in 1..currentBatchId :
            /\ requestBudget(Deployer, b)
            /\ requestBatchSummaryDecryption(Deployer, b)
    \/ Tick

SpecSwitch == Init /\ [][NextSwitch]_vars

\* the two rate limits with both accounts as providers and as requesters
NextRateLimit ==
    \/ \E a \in Senders : addProvider(Deployer, a)
    \/ \E s \in Senders :
            submitAsset(s, Handle(1), HealthInput, Handle(2), BiodiversityInput)
    \/ \E s \in Senders : requestBatchSummaryDecryption(s, currentBatchId)
    \/ Tick

SpecRateLimit == Init /\ [][NextRateLimit]_vars

\* everything that can happen between a request and its callback: the owner
\* of the moment changes roles, ownership, the pause switch and the cooldown,
\* opens and closes batches, and both accounts submit. The clock stands still,
\* so each account submits once.
NextBetween ==
    \/ \E a \in Senders : transferOwnership(owner, a)
    \/ \E a \in Senders : addProvider(owner, a)
    \/ removeProvider(owner, Deployer)
    \/ \E p \in BOOLEAN : setPaused(owner, p)
    \/ \E c \in CooldownInputs \ {0} : setCooldownSeconds(owner, c)
    \/ openNewBatch(owner)
    \/ \E b \in 1..currentBatchId : closeBatch(owner, b)
    \/ \E s \in Senders :
            submitAsset(s, Handle(1), HealthInput, Handle(2), BiodiversityInput)
    \/ \E b \in 1..currentBatchId :
            /\ requestBudget(Deployer, b)
            /\ requestBatchSummaryDecryption(Deployer, b)
    \/ \E r \in DOMAIN requestedHandles : myCallback(Other, r, OracleAnswer(r), "kms")

SpecBetween == Init /\ [][NextBetween]_vars

\* several requests on one batch by both accounts, with their callbacks
\* delivered in any order
NextConcurrent ==
    \/ addProvider(Deployer, Other)
    \/ submitAsset(Other, Handle(1), HealthInput, Handle(2), BiodiversityInput)
    \/ \E s \in Senders : requestBatchSummaryDecryption(s, currentBatchId)
    \/ \E r \in RequestIds :
            \E ct \in CleartextInputs(r) : myCallback(Other, r, ct, "kms")
    \/ Tick

SpecConcurrent == Init /\ [][NextConcurrent]_vars

\* an oracle that never answers: requests by both accounts pile up while the
\* ledger goes on
NextPending ==
    \/ addProvider(Deployer, Other)
    \/ openNewBatch(Deployer)
    \/ closeBatch(Deployer, currentBatchId)
    \/ submitAsset(Other, Handle(1), HealthInput, Handle(2), BiodiversityInput)
    \/ \E s \in Senders, b \in 1..currentBatchId : requestBatchSummaryDecryption(s, b)
    \/ Tick

SpecPending == Init /\ [][NextPending]_vars

\* the oracle delivers its answer to an issued request
Deliver(r) ==
    /\ r \in DOMAIN requestedHandles
    /\ myCallback(Other, r, OracleAnswer(r), "kms")

\* the protocol with an oracle that keeps delivering: anyone may call the
\* callback with anything, the owner may pause and unpause at will, and the
\* oracle's answer to every issued request is eventually delivered
NextDelivery ==
    \/ addProvider(Deployer, Other)
    \/ \E p \in BOOLEAN : setPaused(Deployer, p)
    \/ \E in \in AssetInputs :
            submitAsset(Other, Handle(in[1]), HealthInput, Handle(in[2]), BiodiversityInput)
    \/ /\ requestBudget(Deployer, currentBatchId)
       /\ requestBatchSummaryDecryption(Deployer, currentBatchId)
    \/ \E r \in DOMAIN requestedHandles : myCallback(Other, r, ForgedCleartexts, "forged")
    \/ \E r \in RequestIds : Deliver(r)
    \/ Tick

SpecDelivery ==
    Init /\ [][NextDelivery]_vars /\ \A r \in RequestIds : WF_vars(Deliver(r))

\* every owner-only function and submitAsset, called by either account, with
\* ownership handed to any address, the zero address included. The clock
\* stands still.
NextAuth ==
    \/ \E s \in Senders, a \in Addresses : transferOwnership(s, a)
    \/ \E s \in Senders, a \in Senders : addProvider(s, a)
    \/ \E s \in Senders : removeProvider(s, Deployer)
    \/ \E s \in Senders, p \in BOOLEAN : setPaused(s, p)
    \/ \E s \in Senders, c \in {0, DefaultCooldown} : setCooldownSeconds(s, c)
    \/ \E s \in Senders : openNewBatch(s)
    \/ \E s \in Senders : closeBatch(s, currentBatchId)
    \/ \E s \in Senders :
            submitAsset(s, Handle(1), HealthInput, Handle(2), BiodiversityInput)

SpecAuth == Init /\ [][NextAuth]_vars

\* the cooldown changed by the owner while a provider submits and the owner
\* requests
NextCooldown ==
    \/ addProvider(Deployer, Other)
    \/ \E s \in Senders, c \in CooldownInputs : setCooldownSeconds(s, c)
    \/ submitAsset(Other, Handle(1), HealthInput, Handle(2), BiodiversityInput)
    \/ requestBatchSummaryDecryption(Deployer, currentBatchId)
    \/ Tick

SpecCooldown == Init /\ [][NextCooldown]_vars

\* the role registry: the other account is given the provider role, any
\* role is taken away, by either account, while ownership moves and the
\* provider submits; the deployer is never given the role
NextRoles ==
    \/ \E a \in Senders : transferOwnership(owner, a)
    \/ \E s \in Senders : addProvider(s, Other)
    \/ \E s \in Senders, a \in Senders : removeProvider(s, a)
    \/ \E s \in Senders :
            submitAsset(s, Handle(1), HealthInput, Handle(2), BiodiversityInput)
    \/ Tick

SpecRoles == Init /\ [][NextRoles]_vars

\* cooldowns up to the end of the uint256 range
CooldownRange == {DefaultCooldown, 2 * DefaultCooldown, MaxUint256}

\* first actions: the owner moves the cooldown over its whole range while
\* either account requests and the provider submits, each for the first time
\* or again
NextFirst ==
    \/ addProvider(Deployer, Other)
    \/ \E c \in CooldownRange : setCooldownSeconds(Deployer, c)
    \/ submitAsset(Other, Handle(1), HealthInput, Handle(2), BiodiversityInput)
    \/ \E s \in Senders : requestBatchSummaryDecryption(s, currentBatchId)
    \/ Tick

SpecFirst == Init /\ [][NextFirst]_vars

\* the rejection conditions of submitAsset and of the request in every
\* combination: the role given and taken away, the contract paused and
\* resumed, the current batch closed or empty, the callers in their cooldown
NextGuards ==
    \/ addProvider(Deployer, Other)
    \/ removeProvider(Deployer, Other)
    \/ \E p \in BOOLEAN : setPaused(Deployer, p)
    \/ openNewBatch(Deployer)
    \/ closeBatch(Deployer, currentBatchId)
    \/ submitAsset(Other, Handle(1), HealthInput, Handle(2), BiodiversityInput)
    \/ (requestBudget(Deployer, currentBatchId)
          /\ requestBatchSummaryDecryption(Deployer, currentBatchId))
    \/ Tick

SpecGuards == Init /\ [][NextGuards]_vars

\* the <<health index, biodiversity index>> handles a provider may submit
HiddenInputs == {<<6, 7>>, <<8, 9>>}

\* batches whose assets differ in the health and biodiversity indices, each
\* requested while it is the current one and answered by the oracle
NextBlind ==
    \/ addProvider(Deployer, Other)
    \/ openNewBatch(Deployer)
    \/ \E hb \in HiddenInputs :
            submitAsset(Other, Handle(1), Handle(hb[1]), Handle(2), Handle(hb[2]))
    \/ requestBatchSummaryDecryption(Deployer, currentBatchId)
    \/ \E r \in DOMAIN requestedHandles : myCallback(Other, r, OracleAnswer(r), "kms")
    \/ Tick

SpecBlind == Init /\ [][NextBlind]_vars

\* ---- the web front end (App.tsx, lines 37-548 and 785-794) ----
\* The clients are browsers with a connected wallet, named by the wallet's
\* address. They share one key/value store, read with getData and written
\* with setData; each call is atomic and a client's calls take effect in the
\* order it awaits them. Of an asset's JSON record the owner and the status
\* are kept; JSON.stringify followed by JSON.parse gives back the key list
\* and the record as they were written.
\* everything but the front end
contractSide == <<stateVars, now, emitted, lastCall, historyVars>>

\* the ids in a key list
Listed(ks) == {ks[i] : i \in 1..Len(ks)}

\* list.sort((a, b) => b.timestamp - a.timestamp): ids are handed out in
\* time order, so the latest comes first
RECURSIVE sortByTimestamp(_)
sortByTimestamp(ids) == IF ids = {} THEN <<>> ELSE LET m == CHOOSE x \in ids : \A y \in ids : y <= x IN <<m>> \o sortByTimestamp(ids \ {m})

\* the list loadAssets builds: one entry for every listed key that has a
\* stored record, sorted
loadedAssets(ks, data) == LET ids == sortByTimestamp(Listed(ks) \cap DOMAIN data) IN [i \in 1..Len(ids) |-> [id |-> ids[i], owner |-> data[ids[i]].owner, status |-> data[ids[i]].status]]

\* address?.toLowerCase() === assetOwner.toLowerCase()
isOwner(c, assetOwner) == c = assetOwner

\* the Verify and Reject buttons of the detail modal are rendered
actionsOffered(c) == selectedAsset[c] # NoAsset /\ isOwner(c, selectedAsset[c].owner) /\ selectedAsset[c].status = "pending"

\* submitAsset up to its first setData: a fresh id and the pending record
\* stored under asset_<id>
submitAsset_setData(c) ==
    /\ pc[c] = "idle"
    /\ Cardinality(DOMAIN asset_data) < MaxAssets
    /\ LET id == Cardinality(DOMAIN asset_data) + 1 IN
         /\ assetId' = [assetId EXCEPT ![c] = id]
         /\ asset_data' = (id :> [owner |-> c, status |-> "pending"]) @@ asset_data
    /\ pc' = [pc EXCEPT ![c] = "getKeys"]
    /\ UNCHANGED <<asset_keys, keys, assets, selectedAsset, contractSide>>

\* keys = JSON.parse(getData("asset_keys"))
submitAsset_getKeys(c) ==
    /\ pc[c] = "getKeys"
    /\ keys' = [keys EXCEPT ![c] = asset_keys]
    /\ pc' = [pc EXCEPT ![c] = "setKeys"]
    /\ UNCHANGED <<asset_keys, asset_data, assetId, assets, selectedAsset, contractSide>>

\* keys.push(assetId); setData("asset_keys", keys)
submitAsset_setKeys(c) ==
    /\ pc[c] = "setKeys"
    /\ asset_keys' = Append(keys[c], assetId[c])
    /\ pc' = [pc EXCEPT ![c] = "loadAssets"]
    /\ UNCHANGED <<asset_data, keys, assetId, assets, selectedAsset, contractSide>>

\* await loadAssets() at the end of submitAsset
submitAsset_loadAssets(c) ==
    /\ pc[c] = "loadAssets"
    /\ assets' = [assets EXCEPT ![c] = loadedAssets(asset_keys, asset_data)]
    /\ pc' = [pc EXCEPT ![c] = "idle"]
    /\ UNCHANGED <<asset_keys, asset_data, keys, assetId, selectedAsset, contractSide>>

\* the Refresh button
loadAssets(c) ==
    /\ assets' = [assets EXCEPT ![c] = loadedAssets(asset_keys, asset_data)]
    /\ UNCHANGED <<asset_keys, asset_data, pc, keys, assetId, selectedAsset, contractSide>>

\* a click on an asset card: setSelectedAsset(asset)
selectAsset(c, i) ==
    /\ i \in 1..Len(assets[c])
    /\ selectedAsset' = [selectedAsset EXCEPT ![c] = assets[c][i]]
    /\ UNCHANGED <<asset_keys, asset_data, pc, keys, assetId, assets, contractSide>>

\* onClose of the detail modal: setSelectedAsset(null)
closeModal(c) ==
    /\ selectedAsset[c] # NoAsset
    /\ selectedAsset' = [selectedAsset EXCEPT ![c] = NoAsset]
    /\ UNCHANGED <<asset_keys, asset_data, pc, keys, assetId, assets, contractSide>>

\* the record read with getData, written back with the new status, and the
\* list loaded again; selectedAsset is not set
setStatus(c, status) ==
    /\ asset_data' = [asset_data EXCEPT ![selectedAsset[c].id].status = status]
    /\ assets' = [assets EXCEPT ![c] = loadedAssets(asset_keys, asset_data')]
    /\ UNCHANGED <<asset_keys, pc, keys, assetId, selectedAsset, contractSide>>

\* a click on Verify Asset: onVerify(asset.id)
verifyAsset(c) == actionsOffered(c) /\ setStatus(c, "verified")

\* a click on Reject Asset: onReject(asset.id)
rejectAsset(c) == actionsOffered(c) /\ setStatus(c, "rejected")

\* two clients submitting, browsing and reviewing their assets
NextApp ==
    \E c \in Clients :
        \/ submitAsset_setData(c)
        \/ submitAsset_getKeys(c)
        \/ submitAsset_setKeys(c)
        \/ submitAsset_loadAssets(c)
        \/ loadAssets(c)
        \/ \E i \in 1..MaxAssets : selectAsset(c, i)
        \/ closeModal(c)
        \/ verifyAsset(c)
        \/ rejectAsset(c)

SpecApp == Init /\ [][NextApp]_vars

\* the whole contract: every function, called by either account. The
\* specifications above take their steps from this relation with the callers
\* and arguments narrowed.
Next ==
    \/ \E s \in Senders, a \in Addresses : transferOwnership(s, a)
    \/ \E s \in Senders, a \in Addresses : addProvider(s, a)
    \/ \E s \in Senders, a \in Addresses : removeProvider(s, a)
    \/ \E s \in Senders, p \in BOOLEAN : setPaused(s, p)
    \/ \E s \in Senders, c \in CooldownInputs : setCooldownSeconds(s, c)
    \/ \E s \in Senders : openNewBatch(s)
    \/ \E s \in Senders, b \in BatchIds : closeBatch(s, b)
    \/ \E s \in Senders, in \in AssetInputs :
            submitAsset(s, Handle(in[1]), HealthInput, Handle(in[2]), BiodiversityInput)
    \/ \E s \in Senders, b \in BatchIds : requestBatchSummaryDecryption(s, b)
    \/ \E s \in Senders, r \in RequestIds, p \in ProofInputs :
            \E ct \in CleartextInputs(r) : myCallback(s, r, ct, p)
    \/ Tick

Spec == Init /\ [][Next]_vars

\* ---- properties ----

IsCallback(call) == call.op = "myCallback"

\* positions of the DecryptionCompleted events of a request id
CompletedFor(requestId) ==
    {i \in 1..Len(events) : /\ events[i].type = "DecryptionCompleted"
                            /\ events[i].requestId = requestId}

\* C1: at-most-once finalization. No request id ever has two
\* DecryptionCompleted events, and a myCallback call on a request id whose
\* context is already processed reverts with ReplayAttempt and changes nothing.
C1_AtMostOnceFinalization ==
    /\ [](\A r \in RequestIds : Cardinality(CompletedFor(r)) <= 1)
    /\ [][\A r \in RequestIds :
            (Ctx(r).processed /\ IsCallback(lastCall') /\ lastCall'.arg.requestId = r)
            => (lastCall'.err = "ReplayAttempt" /\ UNCHANGED stateVars)]_vars

C1_Witness ==
    /\ IsCallback(lastCall)
    /\ lastCall.err = "ReplayAttempt"
    /\ Ctx(lastCall.arg.requestId).processed
    /\ Cardinality(CompletedFor(lastCall.arg.requestId)) = 1

\* a context whose batch received an asset after the request and that has not
\* been finalized
StaleUnprocessed(r) ==
    /\ r \in DOMAIN decryptionContexts
    /\ ~decryptionContexts[r].processed
    /\ assetCountInBatch[decryptionContexts[r].batchId] > countAtRequest[r]

\* C2: staleness rejection. A myCallback call for an unprocessed context whose
\* batch received an asset after the request reverts with StateMismatch,
\* whatever cleartexts and proof it carries, and leaves the context unprocessed.
C2_StalenessRejection ==
    [][\A r \in RequestIds :
        (StaleUnprocessed(r) /\ IsCallback(lastCall') /\ lastCall'.arg.requestId = r)
        => /\ lastCall'.err = "StateMismatch"
           /\ UNCHANGED stateVars
           /\ ~Ctx(r).processed']_vars

\* the oracle's own answer to the request arrives after a later submission
C2_Witness ==
    /\ IsCallback(lastCall)
    /\ lastCall.arg.authentic
    /\ lastCall.err = "StateMismatch"
    /\ StaleUnprocessed(lastCall.arg.requestId)

\* the aggregate of the requested batch is no longer the one sent for decryption
AggregateChanged(r) ==
    CtsOf(Aggregate(decryptionContexts[r].batchId)) # requestedHandles[r]

\* C5: order of the callback checks. For every request id, payload and proof:
\* a processed request reverts with ReplayAttempt; an unprocessed request whose
\* aggregate changed reverts with StateMismatch; a proof failure is reported
\* only for an unprocessed request whose aggregate is unchanged.
C5_CheckOrder ==
    \A r \in RequestIds : \A p \in ProofInputs : \A ct \in CleartextInputs(r) :
        LET err == myCallbackErr(r, ct, p) IN
        /\ Ctx(r).processed => err = "ReplayAttempt"
        /\ (r \in DOMAIN decryptionContexts /\ ~Ctx(r).processed /\ AggregateChanged(r))
              => err = "StateMismatch"
        /\ err = "InvalidSignatures"
              => /\ r \in DOMAIN decryptionContexts
                 /\ ~Ctx(r).processed
                 /\ ~AggregateChanged(r)

\* a forged callback on a stale request is answered with StateMismatch
C5_Witness ==
    /\ IsCallback(lastCall)
    /\ ~lastCall.arg.authentic
    /\ lastCall.err = "StateMismatch"
    /\ AggregateChanged(lastCall.arg.requestId)

\* C6: a callback for a request id with no stored context reverts with
\* ReplayAttempt or InvalidBatchId whatever it carries, batch 0 holds no asset,
\* and every DecryptionCompleted event belongs to a stored context.
C6_UnknownRequestRejected ==
    /\ assetCountInBatch[0] = 0
    /\ \A r \in RequestIds \ DOMAIN decryptionContexts :
         \A p \in ProofInputs : \A ct \in CleartextInputs(r) :
            myCallbackErr(r, ct, p) \in {"ReplayAttempt", "InvalidBatchId"}
    /\ \A i \in 1..Len(events) :
         events[i].type = "DecryptionCompleted"
            => events[i].requestId \in DOMAIN decryptionContexts
    /\ (IsCallback(lastCall) /\ lastCall.arg.requestId \notin DOMAIN decryptionContexts)
            => lastCall.err \in {"ReplayAttempt", "InvalidBatchId"}

C6_Witness ==
    /\ IsCallback(lastCall)
    /\ lastCall.arg.requestId \notin DOMAIN decryptionContexts
    /\ lastCall.err = "InvalidBatchId"
    /\ TotalAssets > 0

\* plaintext sum without the modulus: the high limb keeps the overflow
ExactAdd(x, y) ==
    LET lo == x.lo + y.lo
    IN Word(x.hi + y.hi + (lo \div LimbMod), lo % LimbMod)

\* the sum of one field's plaintexts over the assets i.. of a batch
RECURSIVE ExactSum(_, _, _)
ExactSum(batchId, i, field) ==
    IF ~(i < assetCountInBatch[batchId]) THEN Word(0, 0)
    ELSE ExactAdd(Decrypt(AssetAt(batchId, i)[field]), ExactSum(batchId, i + 1, field))

\* C10: when a callback finalizes, the totals it publishes are the sums of the
\* area and carbon-sequestration plaintexts over all assets of the batch.
C10_TotalsAreSums ==
    (IsCallback(lastCall) /\ lastCall.err = "ok")
    => LET e == events[Len(events)] IN
       /\ e.totalArea = ExactSum(e.batchId, 0, "encryptedArea")
       /\ e.totalCarbonSequestration =
             ExactSum(e.batchId, 0, "encryptedCarbonSequestration")

\* C3: no callback finalizes while the contract is paused.
C3_NoFinalizationWhilePaused ==
    ~(paused /\ IsCallback(lastCall) /\ lastCall.err = "ok")

\* C4: while paused, submitAsset, openNewBatch and
\* requestBatchSummaryDecryption revert and change nothing, and the owner's
\* closeBatch (of an open batch), setCooldownSeconds (of a positive value) and
\* setPaused still succeed.
C4_PausedRejects ==
    [][paused =>
        /\ lastCall'.op \in {"submitAsset", "openNewBatch",
                             "requestBatchSummaryDecryption"}
              => /\ lastCall'.err \in {"NotOwner", "NotProvider", "PausedError"}
                 /\ UNCHANGED stateVars
        /\ (lastCall'.op = "closeBatch" /\ lastCall'.sender = owner
                /\ isBatchOpen[lastCall'.arg])
              => (lastCall'.err = "ok" /\ ~isBatchOpen'[lastCall'.arg])
        /\ (lastCall'.op = "setCooldownSeconds" /\ lastCall'.sender = owner
                /\ lastCall'.arg > 0)
              => (lastCall'.err = "ok" /\ cooldownSeconds' = lastCall'.arg)
        /\ (lastCall'.op = "setPaused" /\ lastCall'.sender = owner)
              => (lastCall'.err = "ok" /\ paused' = lastCall'.arg)]_vars

\* a submission that only the pause stops
C4_Witness ==
    /\ paused
    /\ lastCall.op = "submitAsset"
    /\ lastCall.err = "PausedError"
    /\ isProvider[lastCall.sender]
    /\ isBatchOpen[currentBatchId]
    /\ respectCooldown(lastCall.sender, lastSubmissionTime)

\* C7: closed-batch immutability. Once closeBatch(b) has succeeded, no step of
\* any caller increases assetCountInBatch[b].
C7_ClosedBatchImmutable ==
    [][\A b \in closedBatches : assetCountInBatch'[b] <= assetCountInBatch[b]]_vars

\* a submission succeeds into a later batch while an earlier one is closed
C7_Witness ==
    /\ lastCall.op = "submitAsset"
    /\ lastCall.err = "ok"
    /\ \E b \in closedBatches : b < currentBatchId /\ assetCountInBatch[b] > 0

\* C8: a closed batch is never open again, and closeBatch on a batch that is
\* not open (closed, id 0, or id above currentBatchId) reverts and changes
\* nothing; for the owner the error is BatchClosedOrInvalid.
C8_ClosedStaysClosed ==
    /\ [](\A b \in closedBatches : ~isBatchOpen[b])
    /\ [][(lastCall'.op = "closeBatch" /\ ~isBatchOpen[lastCall'.arg])
            => /\ lastCall'.err \in {"NotOwner", "BatchClosedOrInvalid"}
               /\ lastCall'.sender = owner => lastCall'.err = "BatchClosedOrInvalid"
               /\ UNCHANGED stateVars]_vars

C8_Witness ==
    /\ lastCall.op = "closeBatch"
    /\ lastCall.err = "BatchClosedOrInvalid"
    /\ lastCall.arg \in closedBatches
    /\ currentBatchId > lastCall.arg

\* C9: sequential index invariant. The records written for a batch occupy
\* exactly the indices 0..assetCountInBatch-1, and a successful submitAsset
\* writes at the index equal to the count before the call, raises the count by
\* one and leaves the earlier records as they were.
C9_SequentialIndex ==
    /\ [](\A b \in BatchIds : DOMAIN batchAssets[b] = 0..(assetCountInBatch[b] - 1))
    /\ [][(lastCall'.op = "submitAsset" /\ lastCall'.err = "ok")
            => LET b == currentBatchId
                   n == assetCountInBatch[b]
               IN /\ assetCountInBatch'[b] = n + 1
                  /\ DOMAIN batchAssets'[b] = DOMAIN batchAssets[b] \cup {n}
                  /\ n \notin DOMAIN batchAssets[b]
                  /\ \A i \in DOMAIN batchAssets[b] :
                        batchAssets'[b][i] = batchAssets[b][i]
                  /\ \A c \in BatchIds \ {b} :
                        /\ assetCountInBatch'[c] = assetCountInBatch[c]
                        /\ batchAssets'[c] = batchAssets[c]]_vars

C9_Witness ==
    /\ lastCall.op = "submitAsset"
    /\ lastCall.err = "ok"
    /\ assetCountInBatch[currentBatchId] = 2
    /\ DOMAIN batchAssets[currentBatchId] = {0, 1}

\* C11: cooldown enforcement. For an address whose latest successful
\* submitAsset was at time t, a further submitAsset at time now, with the
\* contract unpaused, the address a provider and the current batch open,
\* reverts with CooldownActive and changes nothing when now - t <
\* cooldownSeconds, and succeeds, storing one more asset, when now - t >=
\* cooldownSeconds.
C11_CooldownEnforcement ==
    [][\A a \in Senders :
        (/\ lastCall'.op = "submitAsset" /\ lastCall'.sender = a
         /\ submittedAt[a] # NoTime
         /\ ~paused /\ isProvider[a] /\ isBatchOpen[currentBatchId])
        => IF now - submittedAt[a][1] < cooldownSeconds
           THEN lastCall'.err = "CooldownActive" /\ UNCHANGED stateVars
           ELSE /\ lastCall'.err = "ok"
                /\ assetCountInBatch'[currentBatchId] = assetCountInBatch[currentBatchId] + 1
                /\ submittedAt'[a] = <<now>>]_vars

\* the provider's second submission succeeds exactly cooldownSeconds after
\* the first
C11_Witness ==
    /\ lastCall.op = "submitAsset"
    /\ lastCall.err = "ok"
    /\ TotalAssets = 2
    /\ now - cooldownSeconds = DefaultCooldown
    /\ \A b \in BatchIds : \A i \in DOMAIN batchAssets[b] :
            batchAssets[b][i].ownerAddress = lastCall.sender

RateLimitedOps == {"submitAsset", "requestBatchSummaryDecryption"}

\* C12: a failed attempt never consumes the cooldown window. A submitAsset or
\* requestBatchSummaryDecryption call that reverts leaves both timers of every
\* address (and all other state) unchanged; a timer changes only in a
\* successful call of its own function by that address, and a successful call
\* sets the caller's timer to the current time.
C12_FailedAttemptKeepsTimers ==
    [][/\ (lastCall'.op \in RateLimitedOps /\ lastCall'.err # "ok")
            => /\ lastCall'.err \in {"CooldownActive", "PausedError", "NotProvider",
                                     "BatchClosedOrInvalid", "InvalidBatchId",
                                     "SenderNotAllowed"}
               /\ UNCHANGED <<lastSubmissionTime, lastDecryptionRequestTime>>
               /\ UNCHANGED stateVars
       /\ \A a \in Addresses :
            /\ lastSubmissionTime'[a] # lastSubmissionTime[a]
                 => lastCall' = Call("submitAsset", a, lastCall'.arg, "ok")
            /\ lastDecryptionRequestTime'[a] # lastDecryptionRequestTime[a]
                 => lastCall' = Call("requestBatchSummaryDecryption", a, lastCall'.arg, "ok")
       /\ (lastCall'.op = "submitAsset" /\ lastCall'.err = "ok")
            => lastSubmissionTime'[lastCall'.sender] = now
       /\ (lastCall'.op = "requestBatchSummaryDecryption" /\ lastCall'.err = "ok")
            => lastDecryptionRequestTime'[lastCall'.sender] = now]_vars

\* a submission rejected after the window has passed: the provider's timer
\* still holds the time of the earlier success
C12_Witness ==
    /\ lastCall.op = "submitAsset"
    /\ lastCall.err \in {"PausedError", "BatchClosedOrInvalid"}
    /\ submittedAt[lastCall.sender] # NoTime
    /\ lastSubmissionTime[lastCall.sender] < now
    /\ respectCooldown(lastCall.sender, lastSubmissionTime)

\* C13: the two rate limits are independent per address and per action. A
\* successful submitAsset by a changes lastSubmissionTime[a] and no other
\* timer, a successful requestBatchSummaryDecryption by a changes
\* lastDecryptionRequestTime[a] and no other timer, and a call is rejected with
\* CooldownActive only when the same address succeeded with the same function
\* less than cooldownSeconds before.
C13_IndependentTimers ==
    [][\A a \in Senders :
        /\ lastCall' = Call("submitAsset", a, lastCall'.arg, "ok")
             => /\ lastSubmissionTime' = [lastSubmissionTime EXCEPT ![a] = now]
                /\ lastDecryptionRequestTime' = lastDecryptionRequestTime
        /\ lastCall' = Call("requestBatchSummaryDecryption", a, lastCall'.arg, "ok")
             => /\ lastDecryptionRequestTime' = [lastDecryptionRequestTime EXCEPT ![a] = now]
                /\ lastSubmissionTime' = lastSubmissionTime
        /\ lastCall' = Call("submitAsset", a, lastCall'.arg, "CooldownActive")
             => /\ submittedAt[a] # NoTime
                /\ now - submittedAt[a][1] < cooldownSeconds
        /\ lastCall' = Call("requestBatchSummaryDecryption", a, lastCall'.arg, "CooldownActive")
             => /\ requestedAt[a] # NoTime
                /\ now - requestedAt[a][1] < cooldownSeconds]_vars

\* an address requests in the very block of its own submission, after the
\* other address has submitted and requested in that block too
C13_Witness ==
    /\ lastCall.op = "requestBatchSummaryDecryption"
    /\ lastCall.err = "ok"
    /\ submittedAt[lastCall.sender] = <<now>>
    /\ \E b \in Senders \ {lastCall.sender} :
            submittedAt[b] = <<now>> /\ requestedAt[b] = <<now>>

CallbackFailures == {"StateMismatch", "InvalidBatchId", "InvalidSignatures"}

\* C14: a myCallback call that fails with StateMismatch, InvalidBatchId or a
\* failed proof verification leaves the context unprocessed and all state
\* unchanged, and a call whose proof does not verify never finalizes; after a
\* call rejected only for its proof, a call for the same request id with the
\* oracle's answer and a valid proof finalizes.
C14_FailedCallbackKeepsContext ==
    /\ [][IsCallback(lastCall') =>
            /\ lastCall'.err \in CallbackFailures
                 => /\ UNCHANGED stateVars
                    /\ \A r \in RequestIds :
                          lastCall'.arg.requestId = r => ~Ctx(r).processed'
            /\ ~lastCall'.arg.authentic => lastCall'.err # "ok"]_vars
    /\ []((IsCallback(lastCall) /\ lastCall.err = "InvalidSignatures")
            => myCallbackErr(lastCall.arg.requestId,
                             OracleAnswer(lastCall.arg.requestId), "kms") = "ok")
    /\ [][(/\ IsCallback(lastCall) /\ lastCall.err = "InvalidSignatures"
           /\ IsCallback(lastCall') /\ lastCall'.arg.authentic
           /\ lastCall'.arg.requestId = lastCall.arg.requestId)
            => /\ lastCall'.err = "ok"
               /\ Ctx(lastCall.arg.requestId).processed'
               /\ Cardinality(CompletedFor(lastCall.arg.requestId))' = 1]_vars

\* a callback on a fresh, unchanged request has just been rejected for its
\* proof alone
C14_Witness ==
    /\ IsCallback(lastCall)
    /\ lastCall.err = "InvalidSignatures"
    /\ ~Ctx(lastCall.arg.requestId).processed
    /\ ~AggregateChanged(lastCall.arg.requestId)
    /\ CompletedFor(lastCall.arg.requestId) = {}

\* a stored, unprocessed context whose batch has received no asset since the
\* request
FreshUnprocessed(r) ==
    /\ r \in DOMAIN decryptionContexts
    /\ ~decryptionContexts[r].processed
    /\ assetCountInBatch[decryptionContexts[r].batchId] = countAtRequest[r]

\* C15: no spurious rejection. While no submitAsset into batch b has succeeded
\* since a request for b, the aggregate recomputed over b has the ciphertext
\* handles sent for decryption and the commitment stored with the request, and
\* a callback carrying the oracle's answer and a valid proof finalizes,
\* whatever else happened since the request (closing b, opening batches,
\* submissions into other batches, pausing, role, owner and cooldown changes).
C15_NoSpuriousRejection ==
    /\ [](\A r \in RequestIds :
            FreshUnprocessed(r)
            => /\ CtsOf(Aggregate(Ctx(r).batchId)) = requestedHandles[r]
               /\ hashCiphertexts(CtsOf(Aggregate(Ctx(r).batchId))) = Ctx(r).stateHash
               /\ myCallbackErr(r, OracleAnswer(r), "kms") = "ok")
    /\ [][\A r \in RequestIds :
            (/\ FreshUnprocessed(r) /\ IsCallback(lastCall')
             /\ lastCall'.arg.requestId = r /\ lastCall'.arg.authentic)
            => (lastCall'.err = "ok" /\ Ctx(r).processed')]_vars

\* the callback finalizes a request whose batch has since been closed, with a
\* later batch opened and submitted into, the owner and the cooldown changed
C15_Witness ==
    /\ IsCallback(lastCall)
    /\ lastCall.err = "ok"
    /\ Ctx(lastCall.arg.requestId).batchId \in closedBatches
    /\ currentBatchId > Ctx(lastCall.arg.requestId).batchId
    /\ assetCountInBatch[currentBatchId] > 0
    /\ owner # Deployer
    /\ cooldownSeconds # DefaultCooldown

IsRequest(call) == call.op = "requestBatchSummaryDecryption"

\* C16: per request id the only changes are NonExistent to Requested, by a
\* successful request, and Requested to Finalized, by a successful callback.
\* A stored context is never deleted, its batchId and commitment never change
\* and processed never goes back to false; a context appears only in a
\* successful request, under a fresh id and unprocessed; processed becomes true
\* only in a successful callback for that id, which needs a stored,
\* unprocessed context.
C16_ContextStateMachine ==
    [][\A r \in RequestIds :
        /\ r \in DOMAIN decryptionContexts
             => /\ r \in DOMAIN decryptionContexts'
                /\ decryptionContexts'[r].batchId = decryptionContexts[r].batchId
                /\ decryptionContexts'[r].stateHash = decryptionContexts[r].stateHash
                /\ decryptionContexts[r].processed => decryptionContexts'[r].processed
        /\ (r \notin DOMAIN decryptionContexts /\ r \in DOMAIN decryptionContexts')
             => /\ IsRequest(lastCall') /\ lastCall'.err = "ok"
                /\ decryptionContexts'[r].batchId = lastCall'.arg
                /\ ~decryptionContexts'[r].processed
        /\ (IsRequest(lastCall') /\ lastCall'.err = "ok" /\ r = counterRequest)
             => (r \notin DOMAIN decryptionContexts /\ r \in DOMAIN decryptionContexts')
        /\ (Ctx(r).processed' /\ ~Ctx(r).processed)
             => (IsCallback(lastCall') /\ lastCall'.err = "ok" /\ lastCall'.arg.requestId = r)
        /\ (IsCallback(lastCall') /\ lastCall'.err = "ok" /\ lastCall'.arg.requestId = r)
             => /\ r \in DOMAIN decryptionContexts
                /\ ~Ctx(r).processed
                /\ Ctx(r).processed']_vars

\* a second request is stored while the first one is already finalized
C16_Witness ==
    /\ IsRequest(lastCall)
    /\ lastCall.err = "ok"
    /\ \E r \in DOMAIN decryptionContexts : decryptionContexts[r].processed
    /\ \E r \in DOMAIN decryptionContexts : ~decryptionContexts[r].processed

\* C17: a requestBatchSummaryDecryption(b) call that passes the pause and
\* cooldown guards succeeds when batch b holds at least one asset and reverts
\* with InvalidBatchId when it holds none.
C17_RequestSucceedsIffNonEmpty ==
    (IsRequest(lastCall) /\ lastCall.err \notin {"PausedError", "CooldownActive"})
    => IF assetCountInBatch[lastCall.arg] > 0
       THEN lastCall.err = "ok"
       ELSE lastCall.err = "InvalidBatchId"

\* two stored requests on the same batch with no submission to it in between
SameBatchSameAssets(r1, r2) ==
    /\ r1 # r2
    /\ r1 \in DOMAIN decryptionContexts /\ r2 \in DOMAIN decryptionContexts
    /\ decryptionContexts[r1].batchId = decryptionContexts[r2].batchId
    /\ countAtRequest[r1] = countAtRequest[r2]

\* C18: two requests against the same batch with no submission to it in
\* between have distinct request ids and identical commitments, and each is
\* finalized on its own: every successful request adds one context and leaves
\* the others as they were, a successful callback changes no other context,
\* and while the batch is unchanged the callback with the oracle's answer
\* finalizes either request whether or not the other is finalized.
C18_IndependentRequests ==
    /\ [](\A r1 \in RequestIds : \A r2 \in RequestIds :
            SameBatchSameAssets(r1, r2)
            => /\ decryptionContexts[r1].stateHash = decryptionContexts[r2].stateHash
               /\ (FreshUnprocessed(r1) => myCallbackErr(r1, OracleAnswer(r1), "kms") = "ok"))
    /\ [][/\ (IsRequest(lastCall') /\ lastCall'.err = "ok")
             => /\ DOMAIN decryptionContexts' = DOMAIN decryptionContexts \cup {counterRequest}
                /\ counterRequest \notin DOMAIN decryptionContexts
                /\ \A r \in DOMAIN decryptionContexts :
                      decryptionContexts'[r] = decryptionContexts[r]
          /\ (IsCallback(lastCall') /\ lastCall'.err = "ok")
             => \A r \in DOMAIN decryptionContexts \ {lastCall'.arg.requestId} :
                   decryptionContexts'[r] = decryptionContexts[r]]_vars

\* two requests on the same unchanged batch, issued by different callers in
\* one block, both finalized, the later request first
C18_Witness ==
    /\ \E r1 \in RequestIds : \E r2 \in RequestIds :
            /\ r1 < r2
            /\ SameBatchSameAssets(r1, r2)
            /\ \E i \in CompletedFor(r2) : \E j \in CompletedFor(r1) : i < j
    /\ \A s \in Senders : requestedAt[s] = <<now>>

\* C19: closing a batch blocks only new submissions. For a closed batch with
\* at least one asset, a requestBatchSummaryDecryption call that passes the
\* pause and cooldown guards succeeds, and the callback with the oracle's
\* answer finalizes the request while the batch is unchanged.
C19_ClosedBatchRequestable ==
    /\ (/\ IsRequest(lastCall)
         /\ lastCall.arg \in closedBatches
         /\ assetCountInBatch[lastCall.arg] > 0
         /\ lastCall.err \notin {"PausedError", "CooldownActive"})
        => lastCall.err = "ok"
    /\ \A r \in RequestIds :
        (FreshUnprocessed(r) /\ Ctx(r).batchId \in closedBatches)
        => myCallbackErr(r, OracleAnswer(r), "kms") = "ok"

\* positions of the DecryptionRequested events of a request id and batch
RequestedFor(requestId, batchId) ==
    {i \in 1..Len(events) : /\ events[i].type = "DecryptionRequested"
                            /\ events[i].requestId = requestId
                            /\ events[i].batchId = batchId}

\* C20: plaintext totals become observable only through finalization. Every
\* DecryptionCompleted event comes after a DecryptionRequested event with the
\* same request id and batch id, no request id has two DecryptionCompleted
\* events, and the event log only grows: no step removes or alters an emitted
\* event.
C20_CompletedOnlyAfterRequested ==
    /\ [](\A j \in 1..Len(events) :
            events[j].type = "DecryptionCompleted"
            => \E i \in RequestedFor(events[j].requestId, events[j].batchId) : i < j)
    /\ [](\A r \in RequestIds : Cardinality(CompletedFor(r)) < 2)
    /\ [][/\ Len(events') >= Len(events)
          /\ \A i \in 1..Len(events) : events'[i] = events[i]]_vars

\* a total published for the second batch is still in the log after a later
\* call
C20_Witness ==
    /\ \E j \in 1..Len(events) :
            /\ events[j].type = "DecryptionCompleted"
            /\ events[j].batchId = currentBatchId
            /\ events[j].batchId > 1
    /\ ~IsCallback(lastCall)
    /\ lastCall.err = "ok"

\* the contexts that no callback has finalized
Pending == {r \in DOMAIN decryptionContexts : ~decryptionContexts[r].processed}

\* the time since an address last succeeded with an action has reached the
\* cooldown (an address that never acted counts from time 0)
Elapsed(at, a) == now - (IF at[a] = NoTime THEN 0 ELSE at[a][1]) >= cooldownSeconds

\* C21: a pending context holds nothing hostage. Whatever contexts are
\* pending, submitAsset succeeds exactly when the caller is a provider, the
\* contract is not paused, the caller's submission cooldown has elapsed and the
\* current batch is open; openNewBatch exactly when the caller is the owner and
\* the contract is not paused; closeBatch exactly when the caller is the owner
\* and the batch is open; requestBatchSummaryDecryption exactly when the
\* contract is not paused, the caller's request cooldown has elapsed, the batch
\* holds an asset and its aggregate handles are initialized.
C21_PendingHoldsNothing ==
    [][/\ lastCall'.op = "submitAsset"
            => (lastCall'.err = "ok"
                <=> /\ isProvider[lastCall'.sender] /\ ~paused
                    /\ Elapsed(submittedAt, lastCall'.sender)
                    /\ isBatchOpen[currentBatchId])
       /\ lastCall'.op = "openNewBatch"
            => (lastCall'.err = "ok" <=> (lastCall'.sender = owner /\ ~paused))
       /\ lastCall'.op = "closeBatch"
            => (lastCall'.err = "ok"
                <=> (lastCall'.sender = owner /\ isBatchOpen[lastCall'.arg]))
       /\ IsRequest(lastCall')
            => (lastCall'.err = "ok"
                <=> /\ ~paused
                    /\ Elapsed(requestedAt, lastCall'.sender)
                    /\ assetCountInBatch[lastCall'.arg] > 0
                    /\ allowForDecryption(CtsOf(Aggregate(lastCall'.arg))))]_vars

\* a submission goes through while two requests are unanswered
C21_Witness ==
    /\ lastCall.op = "submitAsset"
    /\ lastCall.err = "ok"
    /\ Cardinality(Pending) = 2

\* the batch of a request has received an asset since the request
Outdated(r) ==
    /\ r \in DOMAIN decryptionContexts
    /\ assetCountInBatch[decryptionContexts[r].batchId] > countAtRequest[r]

\* every stored context is finalized or outdated
AllSettled == \A r \in DOMAIN decryptionContexts : Ctx(r).processed \/ Outdated(r)

\* C22: liveness of the request/callback protocol. Under fair delivery of the
\* oracle's answer, every stored context is eventually finalized unless an
\* asset is submitted into its batch after the request: since a finalized
\* context stays finalized and an outdated one stays outdated, this is that
\* again and again every stored context is finalized or outdated.
C22_EventuallyFinalized == []<>AllSettled

\* a request has been finalized by the oracle's delivery while the contract
\* is paused and after a forged callback
C22_Witness ==
    /\ IsCallback(lastCall)
    /\ lastCall.err = "ok"
    /\ lastCall.arg.authentic
    /\ paused
    /\ ~Outdated(lastCall.arg.requestId)

OwnerOnlyOps == {"transferOwnership", "addProvider", "removeProvider", "setPaused",
                 "setCooldownSeconds", "openNewBatch", "closeBatch"}

\* C23: authorization failures abort with no state change. Each of the seven
\* owner-only functions called by an address other than the current owner
\* reverts with NotOwner, and submitAsset called by an address without the
\* provider role (the owner included) reverts with NotProvider; either way no
\* state changes and no event is emitted.
C23_AuthorizationFailures ==
    [][/\ (lastCall'.op \in OwnerOnlyOps /\ lastCall'.sender # owner)
            => /\ lastCall'.err = "NotOwner"
               /\ UNCHANGED stateVars
               /\ emitted' = <<>>
       /\ (lastCall'.op = "submitAsset" /\ ~isProvider[lastCall'.sender])
            => /\ lastCall'.err = "NotProvider"
               /\ UNCHANGED stateVars
               /\ emitted' = <<>>]_vars

\* the owner, not registered as provider, has its submission rejected while
\* the other account is a provider and the batch is open
C23_Witness ==
    /\ lastCall.op = "submitAsset"
    /\ lastCall.sender = owner
    /\ lastCall.err = "NotProvider"
    /\ \E a \in Senders : isProvider[a]
    /\ isBatchOpen[currentBatchId] /\ ~paused

\* C24: there is one owner at any time; it changes only in a
\* transferOwnership call by the current owner, which always succeeds and sets
\* the owner to the given address, the zero address and the caller included;
\* whoever is not the owner, a previous owner included, gets NotOwner on every
\* owner-only function and leaves the owner as it is.
C24_SingleOwner ==
    /\ [](owner \in Addresses)
    /\ [][/\ owner' # owner
               => lastCall' = Call("transferOwnership", owner, owner', "ok")
          /\ (lastCall'.op = "transferOwnership" /\ lastCall'.sender = owner)
               => /\ lastCall'.err = "ok"
                  /\ owner' = lastCall'.arg
                  /\ emitted' = <<Emit("OwnershipTransferred", <<owner, owner'>>)>>
          /\ (lastCall'.op \in OwnerOnlyOps /\ lastCall'.sender # owner)
               => (lastCall'.err = "NotOwner" /\ owner' = owner)]_vars

\* ownership was handed to the zero address and the deployer, the previous
\* owner, is turned away
C24_Witness ==
    /\ owner = ZeroAddress
    /\ lastCall.op \in OwnerOnlyOps
    /\ lastCall.sender = Deployer
    /\ lastCall.err = "NotOwner"

\* C25: the current batch id is 1 with batch 1 open after construction, never
\* decreases, and changes only in a successful openNewBatch, which adds exactly
\* 1 and leaves the new id open with asset count 0; every batch that is open
\* or holds an asset has an id in 1..currentBatchId.
C25_BatchIdMonotone ==
    /\ (currentBatchId = 1 /\ isBatchOpen[1])
    /\ [](\A b \in BatchIds :
            (isBatchOpen[b] \/ assetCountInBatch[b] > 0) => b \in 1..currentBatchId)
    /\ [][/\ currentBatchId' >= currentBatchId
          /\ (currentBatchId' # currentBatchId)
               => (lastCall'.op = "openNewBatch" /\ lastCall'.err = "ok")
          /\ (lastCall'.op = "openNewBatch" /\ lastCall'.err = "ok")
               => /\ currentBatchId' = currentBatchId + 1
                  /\ isBatchOpen'[currentBatchId']
                  /\ assetCountInBatch'[currentBatchId'] = 0
                  /\ emitted' = <<Emit("BatchOpened", <<currentBatchId'>>)>>]_vars

\* a second batch has just been opened after the first one received an asset
\* and was closed
C25_Witness ==
    /\ lastCall.op = "openNewBatch"
    /\ lastCall.err = "ok"
    /\ currentBatchId = 2
    /\ assetCountInBatch[1] > 0
    /\ ~isBatchOpen[1]

\* C26: an asset record is immutable once written. A successful submitAsset
\* stores the four handles of the call and the sender at (current batch,
\* count before the call), and in every step of every operation each record
\* already stored is still stored, with the same five fields.
C26_AssetImmutable ==
    [][/\ \A b \in BatchIds : \A i \in DOMAIN batchAssets[b] :
            /\ i \in DOMAIN batchAssets'[b]
            /\ batchAssets'[b][i] = batchAssets[b][i]
       /\ (lastCall'.op = "submitAsset" /\ lastCall'.err = "ok")
            => LET i == assetCountInBatch[currentBatchId]
                   asset == batchAssets'[currentBatchId][i]
               IN /\ i \in DOMAIN batchAssets'[currentBatchId]
                  /\ asset.encryptedArea = lastCall'.arg[1]
                  /\ asset.encryptedHealthIndex = lastCall'.arg[2]
                  /\ asset.encryptedCarbonSequestration = lastCall'.arg[3]
                  /\ asset.encryptedBiodiversityIndex = lastCall'.arg[4]
                  /\ asset.ownerAddress = lastCall'.sender]_vars

\* the deployer's record is still in batch 1, next to a later record of the
\* other account, after the deployer lost the provider role and the ownership,
\* the batch was closed and its totals were published
C26_Witness ==
    /\ IsCallback(lastCall)
    /\ lastCall.err = "ok"
    /\ AssetAt(1, 0).ownerAddress = Deployer
    /\ AssetAt(1, 1).ownerAddress = Other
    /\ ~isProvider[Deployer]
    /\ owner = Other
    /\ ~isBatchOpen[1]

\* a provider calls submitAsset while the current batch is not open
SubmitToClosed(call) ==
    /\ call.op = "submitAsset"
    /\ isProvider[call.sender]
    /\ ~isBatchOpen[currentBatchId]

AreaCarbonOf(batchId, n) ==
    [i \in 0..(n - 1) |-> <<AssetAt(batchId, i).encryptedArea,
                            AssetAt(batchId, i).encryptedCarbonSequestration>>]

\* the area and carbon handles a request saw, and those its batch holds now
ViewAtRequest(r) == AreaCarbonOf(Ctx(r).batchId, countAtRequest[r])
ViewNow(r) == AreaCarbonOf(Ctx(r).batchId, assetCountInBatch[Ctx(r).batchId])

\* the totals published for a request id
TotalsOf(r) ==
    {<<events[i].totalArea, events[i].totalCarbonSequestration>> : i \in CompletedFor(r)}

\* C28: only area and carbon sequestration are aggregated. Two requests
\* whose batches held the same area and carbon handles when requested,
\* whatever the health and biodiversity indices stored beside them, have the
\* same commitment and the same handles at the oracle; when the batches also
\* hold the same area and carbon handles now and the contexts are equally
\* processed, the oracle's callback has the same outcome for both, and the
\* totals published for them are the same.
C28_OnlyAreaCarbon ==
    \A r1 \in DOMAIN decryptionContexts : \A r2 \in DOMAIN decryptionContexts :
        ViewAtRequest(r1) = ViewAtRequest(r2)
        => /\ Ctx(r1).stateHash = Ctx(r2).stateHash
           /\ requestedHandles[r1] = requestedHandles[r2]
           /\ (ViewNow(r1) = ViewNow(r2) /\ Ctx(r1).processed = Ctx(r2).processed)
                => myCallbackErr(r1, OracleAnswer(r1), "kms")
                     = myCallbackErr(r2, OracleAnswer(r2), "kms")
           /\ (Ctx(r1).processed /\ Ctx(r2).processed) => TotalsOf(r1) = TotalsOf(r2)

\* two batches hold the same area and carbon handles next to different
\* health and biodiversity indices, and the totals of both were published
C28_Witness ==
    /\ IsCallback(lastCall)
    /\ lastCall.err = "ok"
    /\ \E r1 \in DOMAIN decryptionContexts : \E r2 \in DOMAIN decryptionContexts :
          /\ Ctx(r1).batchId # Ctx(r2).batchId
          /\ Ctx(r1).processed /\ Ctx(r2).processed
          /\ ViewAtRequest(r1) = ViewAtRequest(r2)
          /\ AssetAt(Ctx(r1).batchId, 0).encryptedHealthIndex
               # AssetAt(Ctx(r2).batchId, 0).encryptedHealthIndex
          /\ AssetAt(Ctx(r1).batchId, 0).encryptedBiodiversityIndex
               # AssetAt(Ctx(r2).batchId, 0).encryptedBiodiversityIndex

\* C29: cooldownSeconds is strictly positive in every state. It is 60 after
\* construction; setCooldownSeconds(0) by the owner reverts and changes
\* nothing; a positive value from the owner becomes cooldownSeconds, which
\* nothing else changes; and the guards of submitAsset and of
\* requestBatchSummaryDecryption both compare the time since the caller's last
\* success with that one value.
C29_CooldownPositive ==
    /\ cooldownSeconds = DefaultCooldown
    /\ [](cooldownSeconds > 0)
    /\ [][/\ (lastCall'.op = "setCooldownSeconds" /\ lastCall'.sender = owner)
               => IF lastCall'.arg = 0
                  THEN /\ lastCall'.err = "Cooldown must be positive"
                       /\ UNCHANGED stateVars
                       /\ emitted' = <<>>
                  ELSE /\ lastCall'.err = "ok"
                       /\ cooldownSeconds' = lastCall'.arg
                       /\ emitted' = <<Emit("CooldownSecondsChanged",
                                             <<cooldownSeconds, lastCall'.arg>>)>>
          /\ (cooldownSeconds' # cooldownSeconds)
               => (lastCall'.op = "setCooldownSeconds" /\ lastCall'.err = "ok")
          /\ (lastCall'.op = "submitAsset" /\ isProvider[lastCall'.sender] /\ ~paused)
               => (lastCall'.err = "CooldownActive"
                   <=> ~Elapsed(submittedAt, lastCall'.sender))
          /\ (IsRequest(lastCall') /\ ~paused)
               => (lastCall'.err = "CooldownActive"
                   <=> ~Elapsed(requestedAt, lastCall'.sender))]_vars

\* with the cooldown raised to 120, a request 60 seconds after the caller's
\* previous one is turned away, and so was a submission 60 seconds after the
\* provider's previous one
C29_Witness ==
    /\ cooldownSeconds = 2 * DefaultCooldown
    /\ IsRequest(lastCall)
    /\ lastCall.err = "CooldownActive"
    /\ requestedAt[lastCall.sender] # NoTime
    /\ now - requestedAt[lastCall.sender][1] = DefaultCooldown
    /\ submittedAt[Other] # NoTime
    /\ now - submittedAt[Other][1] = DefaultCooldown

RoleOps == {"addProvider", "removeProvider"}

\* C30: provider role changes are idempotent. A successful addProvider
\* leaves the address with the role and a successful removeProvider without
\* it, changing nothing else; on an address that already has the role,
\* respectively has none, the call changes no state, and so does the second
\* of two equal calls in a row; every successful call emits ProviderAdded,
\* respectively ProviderRemoved, for the address.
C30_ProviderIdempotent ==
    [][/\ (lastCall'.op = "addProvider" /\ lastCall'.err = "ok")
            => /\ isProvider' = [isProvider EXCEPT ![lastCall'.arg] = TRUE]
               /\ isProvider[lastCall'.arg] => UNCHANGED stateVars
               /\ emitted' = <<Emit("ProviderAdded", <<lastCall'.arg>>)>>
       /\ (lastCall'.op = "removeProvider" /\ lastCall'.err = "ok")
            => /\ isProvider' = [isProvider EXCEPT ![lastCall'.arg] = FALSE]
               /\ ~isProvider[lastCall'.arg] => UNCHANGED stateVars
               /\ emitted' = <<Emit("ProviderRemoved", <<lastCall'.arg>>)>>
       /\ (lastCall'.op \in RoleOps /\ lastCall'.err = "ok" /\ lastCall.err = "ok"
             /\ lastCall.op = lastCall'.op /\ lastCall.arg = lastCall'.arg)
            => UNCHANGED stateVars]_vars

\* the owner has just taken the provider role from the deployer, who never
\* had it, and ProviderRemoved was emitted; the other account, a provider
\* with an asset stored, keeps the role
C30_Witness ==
    /\ lastCall = Call("removeProvider", owner, Deployer, "ok")
    /\ emitted = <<Emit("ProviderRemoved", <<Deployer>>)>>
    /\ isProvider[Other]
    /\ TotalAssets > 0

\* C31: submissions only ever go to the current batch. In every step the
\* count and the records of every batch other than the current one stay as
\* they are, a successful submitAsset adds one asset to the current batch, and
\* a successful openNewBatch makes the batch that was current an earlier one
\* without closing it; so a batch with an id below currentBatchId never gets
\* another asset, open or not.
C31_OnlyCurrentBatch ==
    [][/\ \A b \in BatchIds \ {currentBatchId} :
            /\ assetCountInBatch'[b] = assetCountInBatch[b]
            /\ batchAssets'[b] = batchAssets[b]
       /\ \A b \in 1..(currentBatchId' - 1) :
            /\ assetCountInBatch'[b] = assetCountInBatch[b]
            /\ batchAssets'[b] = batchAssets[b]
       /\ (lastCall'.op = "submitAsset" /\ lastCall'.err = "ok")
            => /\ assetCountInBatch'[currentBatchId] = assetCountInBatch[currentBatchId] + 1
               /\ currentBatchId' = currentBatchId
       /\ (lastCall'.op = "openNewBatch" /\ lastCall'.err = "ok")
            => /\ currentBatchId < currentBatchId'
               /\ isBatchOpen'[currentBatchId] = isBatchOpen[currentBatchId]]_vars

\* batch 1 was never closed and is still flagged open, yet the submission
\* made after openNewBatch went to batch 2 and left batch 1 with its one asset
C31_Witness ==
    /\ lastCall.op = "submitAsset"
    /\ lastCall.err = "ok"
    /\ currentBatchId = 2
    /\ isBatchOpen[1]
    /\ 1 \notin closedBatches
    /\ assetCountInBatch[1] = 1
    /\ assetCountInBatch[2] = 1

\* an unprocessed context whose batch has received an asset since the request
Stale(r) == Outdated(r) /\ ~Ctx(r).processed

\* C32: staleness is permanent. Once a batch has received an asset after a
\* request for it that is not yet finalized, the request stays that way in
\* every later state: its commitment does not change, its context is never
\* processed, and every myCallback for it, with the oracle's proof or a
\* forged one, reverts with StateMismatch and changes nothing.
C32_StalenessPermanent ==
    [][\A r \in RequestIds :
          Stale(r)
          => /\ Stale(r)'
             /\ Ctx(r)'.stateHash = Ctx(r).stateHash
             /\ (IsCallback(lastCall') /\ lastCall'.arg.requestId = r)
                  => /\ lastCall'.err = "StateMismatch"
                     /\ UNCHANGED stateVars
                     /\ emitted' = <<>>]_vars

\* the oracle's own signed answer is turned away for a request whose batch
\* grew after the request
C32_Witness ==
    /\ IsCallback(lastCall)
    /\ lastCall.arg.authentic
    /\ lastCall.err = "StateMismatch"
    /\ Stale(lastCall.arg.requestId)

\* the current time has reached cooldownSeconds, as uint256 values
TimeReached == cooldownSeconds >= 0 /\ now >= cooldownSeconds

\* what the cooldown guard answers
GuardErrors == {"CooldownActive", "Panic(0x11)"}

\* C33: an address that never acted is not exempt from the cooldown. Its
\* timer reads 0; with the contract running, its first submitAsset as a
\* provider, and its first requestBatchSummaryDecryption, get past the
\* cooldown guard exactly when the current time is at least cooldownSeconds,
\* and are rejected with CooldownActive otherwise: the guard's sum, 0 +
\* cooldownSeconds, is within uint256 for every cooldown, so there is no
\* arithmetic revert.
C33_FirstActionCooldown ==
    /\ [](\A a \in Senders :
            /\ submittedAt[a] = NoTime => lastSubmissionTime[a] = 0
            /\ requestedAt[a] = NoTime => lastDecryptionRequestTime[a] = 0)
    /\ [][/\ (lastCall'.op = "submitAsset" /\ submittedAt[lastCall'.sender] = NoTime
               /\ isProvider[lastCall'.sender] /\ ~paused)
               => IF TimeReached THEN lastCall'.err \notin GuardErrors
                  ELSE lastCall'.err = "CooldownActive" /\ UNCHANGED stateVars
          /\ (IsRequest(lastCall') /\ requestedAt[lastCall'.sender] = NoTime /\ ~paused)
               => IF TimeReached THEN lastCall'.err \notin GuardErrors
                  ELSE lastCall'.err = "CooldownActive" /\ UNCHANGED stateVars]_vars

\* with the cooldown at the top of the uint256 range, the first request of an
\* account is turned away with CooldownActive, while the other account,
\* which has requested before, has its guard overflow
C33_Witness ==
    /\ cooldownSeconds = MaxUint256
    /\ IsRequest(lastCall)
    /\ lastCall.err = "CooldownActive"
    /\ requestedAt[lastCall.sender] = NoTime
    /\ \E a \in Senders : requestedAt[a] # NoTime /\ cooldownPanics(a, lastDecryptionRequestTime)

\* C34: guards are evaluated in a fixed order. submitAsset reports
\* NotProvider, else PausedError, else CooldownActive, else
\* BatchClosedOrInvalid, whichever of the later conditions hold as well;
\* requestBatchSummaryDecryption reports PausedError, else CooldownActive,
\* else InvalidBatchId for an empty batch.
C34_GuardOrder ==
    [][/\ lastCall'.op = "submitAsset"
            => lastCall'.err =
                 (IF ~isProvider[lastCall'.sender] THEN "NotProvider"
                  ELSE IF paused THEN "PausedError"
                  ELSE IF ~Elapsed(submittedAt, lastCall'.sender) THEN "CooldownActive"
                  ELSE IF ~isBatchOpen[currentBatchId] THEN "BatchClosedOrInvalid"
                  ELSE "ok")
       /\ IsRequest(lastCall')
            => IF paused THEN lastCall'.err = "PausedError"
               ELSE IF ~Elapsed(requestedAt, lastCall'.sender)
                    THEN lastCall'.err = "CooldownActive"
               ELSE IF assetCountInBatch[lastCall'.arg] = 0
                    THEN lastCall'.err = "InvalidBatchId"
               ELSE lastCall'.err \notin {"PausedError", "CooldownActive"}]_vars

\* an account in its cooldown, its provider role taken away, submits to the
\* closed current batch of the paused contract and is told NotProvider
C34_Witness ==
    /\ lastCall.op = "submitAsset"
    /\ lastCall.err = "NotProvider"
    /\ paused
    /\ ~Elapsed(submittedAt, lastCall.sender)
    /\ ~isBatchOpen[currentBatchId]

\* both submissions have completed
AllSubmitted == \A c \in Clients : pc[c] = "idle"

\* C35: in the web front end, once the concurrent submissions of two
\* clients have completed, every asset whose record was written with
\* setData(asset_<id>) is listed in asset_keys.
C35_EveryAssetListed == AllSubmitted => DOMAIN asset_data \subseteq Listed(asset_keys)

\* C36: in the web front end an asset's status moves only from pending to
\* verified or from pending to rejected, by a click of the asset's owner; a
\* verified or rejected asset is never changed again.
C36_StatusFinal ==
    [][\A id \in DOMAIN asset_data :
          asset_data'[id].status # asset_data[id].status
          => /\ asset_data[id].status = "pending"
             /\ asset_data'[id].status \in {"verified", "rejected"}]_vars

====
